---- MODULE Spec2Model ----
(***************************************************************************)
(* A model of reggie/core/params.py: Parameter (leaf), Parameters          *)
(* (container / view) and Parameterized (owner).                           *)
(*                                                                         *)
(* Objects are modelled by identity: `heap` holds the Parameter objects    *)
(* (a leaf is its index in heap), `objs` holds the Parameters container of *)
(* every live Parameterized owner (an owner is its index in objs).  A      *)
(* container is a record [obj, params]: obj is the back-reference __obj    *)
(* and params the OrderedDict, a sequence of [name, leaf] entries.         *)
(* Numbers are integers on a small grid; Inf and NegInf stand for +-inf.   *)
(* A prior is represented by its support box <<lo, hi>> (one box for all   *)
(* components of a value); None is <<>>.  Calls are made with              *)
(* transform=False.                                                        *)
(*                                                                         *)
(* Callers follow the life cycle of an owner: a constructor (New ..        *)
(* Finish) makes its _register / _register_obj calls, in a fixed order of  *)
(* names, before the owner is used; owners are constructed before the      *)
(* first set_value / set_prior call.                                       *)
(*                                                                         *)
(* History variables: origin[o] records the owner o was copied from (src)  *)
(* and the parent it was embedded in (host), 0 for none; last records the  *)
(* last call and what an observer saw of it; nops counts the set_value /   *)
(* set_prior calls made.                                                   *)
(***************************************************************************)
EXTENDS Integers, Sequences, FiniteSets, TLC

VARIABLES heap, objs, origin, building, nops, last

vars == <<heap, objs, origin, building, nops, last>>

(* ------------------------------ bounds -------------------------------- *)
MaxVal == 2
MaxObjs == 3
MaxLeaves == 4
MaxTheta == 2
MaxOps == 2
MaxNew == 2

Vals == 0..MaxVal
Inf == MaxVal + 1
NegInf == 0 - 1

(* ----------------------- external registries -------------------------- *)
REAL == "real"
POSITIVE == "positive"
\* smallest value of the positive domain on the model's grid
EPSILON == 1
BOUNDS(domain) == IF domain = REAL THEN <<NegInf, Inf>> ELSE <<EPSILON, Inf>>

None == <<>>
\* Python's None where a name is expected
NoName == ""
\* support boxes of the priors a caller can construct
PriorBoxes == {<<NegInf, 0>>, <<0, 1>>, <<1, MaxVal>>}

(* ------------------------------ inputs -------------------------------- *)
\* the declare_parameter calls a constructor can make
Decls ==
    { [name |-> "a",     value |-> <<0>>,         domain |-> REAL],
      [name |-> "b",     value |-> <<0, MaxVal>>, domain |-> REAL],
      [name |-> "sub.b", value |-> <<1>>,         domain |-> POSITIVE],
      [name |-> "a",     value |-> <<0>>,         domain |-> POSITIVE] }
\* constructors declare their parameters in this order
Rank(name) == CASE name = "a" -> 1 [] name = "b" -> 2 [] name = "sub.b" -> 3 [] OTHER -> 0
ObjNames == {"sub"}
Thetas == UNION {[1..n -> Vals] : n \in 0..MaxTheta}

Max(x, y) == IF x >= y THEN x ELSE y
Min(x, y) == IF x <= y THEN x ELSE y

(* ------------------------------ helpers ------------------------------- *)
_outbounds(bounds, theta) ==
    \/ \E i \in 1..Len(theta) : theta[i] < bounds[1]
    \/ \E i \in 1..Len(theta) : theta[i] > bounds[2]

\* a clip that resets the whole array when any component is out of range
clip_whole_array(value, lo, hi) ==
    IF _outbounds(<<lo, hi>>, value)
    THEN [i \in 1..Len(value) |-> IF value[i] > hi THEN hi ELSE lo]
    ELSE value

\* np.clip(value, lo, hi) == minimum(maximum(value, lo), hi)
clip(value, lo, hi) == [i \in 1..Len(value) |-> Min(Max(value[i], lo), hi)]

(* ------------------------------ Parameter ----------------------------- *)
Parameter_set_value(p, theta) ==
    IF _outbounds(p.bounds, theta)
    THEN [err |-> "domain", p |-> p]
    ELSE [err |-> "ok", p |-> [p EXCEPT !.value = theta]]

Parameter_init(value, domain) ==
    LET p == [value |-> value, prior |-> None, block |-> 0,
              domain |-> domain, bounds |-> BOUNDS(domain)]
    IN  Parameter_set_value(p, value)

\* Parameter.set_prior without the np.clip of the current value
Parameter_set_prior_noclip(p, prior) ==
    IF prior = None
    THEN [err |-> "ok", p |-> [p EXCEPT !.prior = None, !.bounds = BOUNDS(p.domain)]]
    ELSE LET dbounds == BOUNDS(p.domain)
         IN  IF \/ _outbounds(dbounds, <<prior[1]>>)
                \/ _outbounds(dbounds, <<prior[2]>>)
             THEN [err |-> "mismatch", p |-> p]
             ELSE [err |-> "ok",
                   p |-> [p EXCEPT !.prior = prior,
                                   !.bounds = <<Max(prior[1], dbounds[1]),
                                                Min(prior[2], dbounds[2])>>]]

Parameter_set_prior(p, prior) ==
    IF prior = None
    THEN [err |-> "ok", p |-> [p EXCEPT !.prior = None, !.bounds = BOUNDS(p.domain)]]
    ELSE LET dbounds == BOUNDS(p.domain)
             pbounds == prior
         IN  IF \/ _outbounds(dbounds, <<pbounds[1]>>)
                \/ _outbounds(dbounds, <<pbounds[2]>>)
             THEN [err |-> "mismatch", p |-> p]
             ELSE LET bounds == <<Max(pbounds[1], dbounds[1]),
                                  Min(pbounds[2], dbounds[2])>>
                      value == clip(p.value, bounds[1], bounds[2])
                  IN  [err |-> "ok",
                       p |-> [p EXCEPT !.prior = prior, !.bounds = bounds,
                                       !.value = value]]

\* Parameter.__deepcopy__: a new object with its own value array
Parameter_deepcopy(p) == p

(* ------------------------------ Parameters ---------------------------- *)
Parameters_init(obj, params) == [obj |-> obj, params |-> params]

KeysOf(c) == {c.params[i].name : i \in 1..Len(c.params)}
LeavesOf(c) == {c.params[i].leaf : i \in 1..Len(c.params)}
Lookup(c, key) == (CHOOSE i \in 1..Len(c.params) : c.params[i].name = key)

RECURSIVE SumSizes(_, _)
SumSizes(h, ps) ==
    IF ps = <<>> THEN 0 ELSE Len(h[Head(ps).leaf].value) + SumSizes(h, Tail(ps))

Parameters_size(h, c) == SumSizes(h, c.params)

\* Parameters.__getitem__: a view aliasing the named leaves
RECURSIVE GetItems(_, _, _)
GetItems(c, keys, params) ==
    IF keys = <<>> THEN [err |-> "ok", c |-> Parameters_init(c.obj, params)]
    ELSE LET key == Head(keys) IN
         IF \E i \in 1..Len(params) : params[i].name = key
         THEN [err |-> "duplicate-key", c |-> c]
         ELSE IF key \notin KeysOf(c)
         THEN [err |-> "unknown-key", c |-> c]
         ELSE GetItems(c, Tail(keys), Append(params, c.params[Lookup(c, key)]))

Parameters_getitem(c, keys) == GetItems(c, keys, <<>>)

\* Parameters._register for a Parameter leaf
RegisterLeaf(c, name, leaf) ==
    IF name \in KeysOf(c)
    THEN [err |-> "duplicate-name", c |-> c]
    ELSE [err |-> "ok", c |-> [c EXCEPT !.params = Append(@, [name |-> name, leaf |-> leaf])]]

\* Parameters._register for a Parameters instance: entry by entry
RECURSIVE RegisterAll(_, _, _)
RECURSIVE RegisterAll_noprefix(_, _, _)
\* the nested registration without the name + '.' prefix
RegisterAll_noprefix(c, name, ps) ==
    IF ps = <<>> THEN [err |-> "ok", c |-> c]
    ELSE LET r == RegisterLeaf(c, Head(ps).name, Head(ps).leaf)
         IN  IF r.err # "ok" THEN r ELSE RegisterAll_noprefix(r.c, name, Tail(ps))

RegisterAll(c, name, ps) ==
    IF ps = <<>> THEN [err |-> "ok", c |-> c]
    ELSE LET n == IF name # NoName THEN name \o "." \o Head(ps).name ELSE Head(ps).name
             r == RegisterLeaf(c, n, Head(ps).leaf)
         IN  IF r.err # "ok" THEN r ELSE RegisterAll(r.c, name, Tail(ps))

Parameters_register(c, name, param) == RegisterAll(c, name, param.params)

\* the loop of Parameters.set_value over the leaves, stopping at the first raise
RECURSIVE SetLeaves(_, _, _, _, _)
SetLeaves(h, ps, theta, a, log) ==
    IF ps = <<>> THEN [err |-> "ok", heap |-> h, log |-> log]
    ELSE LET id == Head(ps).leaf
             b == a + Len(h[id].value)
             r == Parameter_set_value(h[id], SubSeq(theta, a + 1, b))
         IN  IF r.err # "ok"
             THEN [err |-> r.err, heap |-> h, log |-> log]
             ELSE SetLeaves([h EXCEPT ![id] = r.p], Tail(ps), theta, b,
                            Append(log, <<"write", id>>))

\* Parameterized._update, as the event it is to an observer
_update(obj) == <<"update", obj>>

\* Parameters.set_value with the _update call inside the loop over the leaves
Parameters_set_value_hook_per_leaf(h, c, theta) ==
    IF Len(theta) # Parameters_size(h, c)
    THEN [err |-> "shape", heap |-> h, log |-> <<>>]
    ELSE LET r == SetLeaves(h, c.params, theta, 0, <<>>)
         IN  [r EXCEPT !.log = [i \in 1..(2 * Len(r.log)) |->
                                   IF i % 2 = 1 THEN r.log[(i + 1) \div 2]
                                   ELSE _update(c.obj)]]

\* Parameters.set_value rejecting only a theta that is too short
Parameters_set_value_short_only(h, c, theta) ==
    IF Len(theta) < Parameters_size(h, c)
    THEN [err |-> "shape", heap |-> h, log |-> <<>>]
    ELSE LET r == SetLeaves(h, c.params, theta, 0, <<>>)
         IN  IF r.err # "ok" THEN r
             ELSE [r EXCEPT !.log = Append(@, _update(c.obj))]

Parameters_set_value(h, c, theta) ==
    IF Len(theta) # Parameters_size(h, c)
    THEN [err |-> "shape", heap |-> h, log |-> <<>>]
    ELSE LET r == SetLeaves(h, c.params, theta, 0, <<>>)
         IN  IF r.err # "ok" THEN r
             ELSE [r EXCEPT !.log = Append(@, _update(c.obj))]

Parameters_set_prior(h, c, prior) ==
    IF Len(c.params) > 1
    THEN [err |-> "ambiguous", heap |-> h, log |-> <<>>]
    ELSE IF Len(c.params) = 0
    THEN [err |-> "ok", heap |-> h, log |-> <<_update(c.obj)>>]
    ELSE LET id == c.params[1].leaf
             r == Parameter_set_prior(h[id], prior)
         IN  IF r.err # "ok"
             THEN [err |-> r.err, heap |-> h, log |-> <<>>]
             ELSE [err |-> "ok", heap |-> [h EXCEPT ![id] = r.p],
                   log |-> <<<<"write", id>>, _update(c.obj)>>]

(* ----------------------------- Parameterized -------------------------- *)
\* Parameters.__deepcopy__ under a memo that maps the owner to `newobj`:
\* every Parameter is copied (new heap cells, in flattening order) and the
\* back-reference is looked up in the memo.
CopiedLeaves(h, c) == [i \in 1..Len(c.params) |-> Parameter_deepcopy(h[c.params[i].leaf])]

\* a copy of the container that keeps the Parameter objects of the original
Parameters_deepcopy_shallow(h, c, newobj) == Parameters_init(newobj, c.params)

Parameters_deepcopy(h, c, newobj) ==
    Parameters_init(newobj,
        [i \in 1..Len(c.params) |->
            [name |-> c.params[i].name, leaf |-> Len(h) + i]])

\* Parameterized.__deepcopy__: the new owner is allocated first (index
\* Len(os) + 1) and put in the memo, then the container is copied.
Parameterized_deepcopy(h, os, o) ==
    [heap |-> h \o CopiedLeaves(h, os[o]),
     c    |-> Parameters_deepcopy(h, os[o], Len(os) + 1)]

\* what an observer saw of the last call: the method, the owner whose params
\* were used, the container (or view) it was called on, the length of theta,
\* the prior argument, the outcome and the leaf writes and hook calls in order
Event(op, obj, c, n, prior, err, log) ==
    [op |-> op, obj |-> obj, c |-> c, n |-> n, prior |-> prior, err |-> err, log |-> log]

\* the containers a caller can reach from owner o: o.params and o.params[key]
KeyTuples(c) == {<<>>} \cup {<<k>> : k \in KeysOf(c)}
Targets(c) == {c} \cup {Parameters_getitem(c, ks).c : ks \in KeyTuples(c)}

Owners == 1..Len(objs)
\* owners whose constructor has returned
Active == Owners \ {building}

Init ==
    /\ heap = <<>>
    /\ objs = <<>>
    /\ origin = <<>>
    /\ building = 0
    /\ nops = 0
    /\ last = Event("init", 0, Parameters_init(0, <<>>), 0, None, "ok", <<>>)

\* Parameterized.__init__: a subclass constructor starts
New ==
    /\ building = 0
    /\ nops = 0
    /\ Cardinality({o \in Owners : origin[o].src = 0}) < MaxNew
    /\ Len(objs) < MaxObjs
    /\ objs' = Append(objs, Parameters_init(Len(objs) + 1, <<>>))
    /\ origin' = Append(origin, [src |-> 0, host |-> 0])
    /\ building' = Len(objs) + 1
    /\ last' = Event("new", Len(objs) + 1, Parameters_init(Len(objs) + 1, <<>>), 0, None, "ok", <<>>)
    /\ UNCHANGED <<heap, nops>>

\* the subclass constructor returns: the owner is active
Finish ==
    /\ building # 0
    /\ building' = 0
    /\ last' = Event("finish", building, objs[building], 0, None, "ok", <<>>)
    /\ UNCHANGED <<heap, objs, origin, nops>>

\* Parameterized._register (declare_parameter), called by the constructor
Parameterized_register(o, name, value, domain) ==
    LET p == Parameter_init(value, domain)
        r == RegisterLeaf(objs[o], name, Len(heap) + 1)
    IN  /\ o = building /\ o \in Owners
        /\ Len(heap) < MaxLeaves
        /\ \A k \in KeysOf(objs[o]) : Rank(k) <= Rank(name)
        /\ IF p.err # "ok"
           THEN /\ last' = Event("register", o, objs[o], 0, None, p.err, <<>>)
                /\ UNCHANGED <<heap, objs>>
           ELSE IF r.err # "ok"
           THEN /\ last' = Event("register", o, objs[o], 0, None, r.err, <<>>)
                /\ UNCHANGED <<heap, objs>>
           ELSE /\ heap' = Append(heap, p.p)
                /\ objs' = [objs EXCEPT ![o] = r.c]
                /\ last' = Event("register", o, objs[o], 0, None, "ok", <<>>)
        /\ UNCHANGED <<origin, building, nops>>

\* Parameterized.copy(theta); theta = None copies only
Parameterized_copy(o, theta) ==
    LET d == Parameterized_deepcopy(heap, objs, o)
        r == IF theta = None THEN [err |-> "ok", heap |-> d.heap, log |-> <<>>]
             ELSE Parameters_set_value(d.heap, d.c, theta)
    IN  /\ building = 0
        /\ Len(objs) < MaxObjs
        /\ Len(heap) + Len(objs[o].params) <= MaxLeaves
        /\ theta # None => nops < MaxOps
        /\ nops' = IF theta # None THEN nops + 1 ELSE nops
        /\ last' = Event("copy", o, d.c, Len(theta), None, r.err, r.log)
        /\ IF r.err # "ok"
           THEN UNCHANGED <<heap, objs, origin>>
           ELSE /\ heap' = r.heap
                /\ objs' = Append(objs, d.c)
                /\ origin' = Append(origin, [src |-> o, host |-> 0])
        /\ UNCHANGED building

\* Parameterized._register_obj (embed), called by the constructor
Parameterized_register_obj(o, name, child) ==
    LET d == Parameterized_deepcopy(heap, objs, child)
        r == Parameters_register(objs[o], name, d.c)
        k == Len(r.c.params) - Len(objs[o].params)
    IN  /\ o = building /\ o \in Owners
        /\ Len(objs) < MaxObjs
        /\ Len(heap) + k <= MaxLeaves
        /\ last' = Event("register_obj", o, objs[o], Len(objs[child].params), None, r.err, <<>>)
        /\ IF r.err # "ok"
           THEN \* the raise leaves the entries registered so far in place;
                \* the copy itself is dropped, the leaves it shared stay
                /\ heap' = SubSeq(d.heap, 1, Len(heap) + k)
                /\ objs' = [objs EXCEPT ![o] = r.c]
                /\ UNCHANGED origin
           ELSE /\ heap' = d.heap
                /\ objs' = Append([objs EXCEPT ![o] = r.c], d.c)
                /\ origin' = Append(origin, [src |-> child, host |-> o])
        /\ UNCHANGED <<building, nops>>

\* o.params.set_value(theta) or o.params[key].set_value(theta)
SetValue(o, c, theta) ==
    LET r == Parameters_set_value(heap, c, theta)
    IN  /\ building = 0
        /\ nops < MaxOps
        /\ nops' = nops + 1
        /\ heap' = r.heap
        /\ last' = Event("set_value", o, c, Len(theta), None, r.err, r.log)
        /\ UNCHANGED <<objs, origin, building>>

\* o.params.set_prior(prior) or o.params[key].set_prior(prior)
SetPrior(o, c, prior) ==
    LET r == Parameters_set_prior(heap, c, prior)
    IN  /\ building = 0
        /\ nops < MaxOps
        /\ nops' = nops + 1
        /\ heap' = r.heap
        /\ last' = Event("set_prior", o, c, 0, prior, r.err, r.log)
        /\ UNCHANGED <<objs, origin, building>>

Next ==
    \/ New
    \/ Finish
    \/ \E d \in Decls : Parameterized_register(building, d.name, d.value, d.domain)
    \/ \E o \in Active, theta \in {None} \cup Thetas : Parameterized_copy(o, theta)
    \/ \E name \in ObjNames, child \in Active :
          Parameterized_register_obj(building, name, child)
    \/ \E o \in Active : \E c \in Targets(objs[o]), theta \in Thetas : SetValue(o, c, theta)
    \/ \E o \in Active : \E c \in Targets(objs[o]), prior \in {None} \cup PriorBoxes :
          SetPrior(o, c, prior)

Spec == Init /\ [][Next]_vars

\* Parameters.get_value(transform=False): the leaves' values, hstacked
RECURSIVE HStack(_, _)
HStack(h, ps) ==
    IF ps = <<>> THEN <<>> ELSE h[Head(ps).leaf].value \o HStack(h, Tail(ps))

Parameters_get_value(h, c) == HStack(h, c.params)

(* --------------------------- block assignment ------------------------- *)
\* bounds of the block inputs: tags 0..MaxTag, leaves of 1..MaxSize elements
MaxTag == 1
MaxSize == 3
BlockTags == 0..MaxTag
BlockNames == {"x", "y", "z"}
Zeros(n) == [i \in 1..n |-> 0]
BlockLists == UNION {[1..n -> BlockTags] : n \in 0..Cardinality(BlockNames)}

\* range(a, b)
Range(a, b) == [i \in 1..(b - a) |-> a + i - 1]

\* Parameters.block (getter)
Parameters_block(h, c) == [i \in 1..Len(c.params) |-> h[c.params[i].leaf].block]

\* Parameters.block (setter); a scalar is repeated once per leaf
Parameters_block_setter(h, c, value, isscalar) ==
    LET v == IF isscalar THEN [i \in 1..Len(c.params) |-> value] ELSE value
    IN  IF Len(v) # Len(c.params)
        THEN [err |-> "invalid-block", heap |-> h]
        ELSE [err |-> "ok",
              heap |-> [l \in 1..Len(h) |->
                          IF \E i \in 1..Len(c.params) : c.params[i].leaf = l
                          THEN [h[l] EXCEPT !.block =
                                  v[CHOOSE i \in 1..Len(c.params) : c.params[i].leaf = l]]
                          ELSE h[l]]]

\* dict.setdefault(tag, []).extend(idx) on a dict kept in insertion order
SetDefaultExtend(d, tag, idx) ==
    IF \E j \in 1..Len(d) : d[j].tag = tag
    THEN [j \in 1..Len(d) |->
            IF d[j].tag = tag THEN [d[j] EXCEPT !.idx = d[j].idx \o idx] ELSE d[j]]
    ELSE Append(d, [tag |-> tag, idx |-> idx])

\* as BlocksLoop, but every leaf's range starts again at 0
RECURSIVE BlocksLoop_no_offset(_, _, _, _)
BlocksLoop_no_offset(h, ps, a, d) ==
    IF ps = <<>> THEN d
    ELSE LET b == Len(h[Head(ps).leaf].value)
         IN  BlocksLoop_no_offset(h, Tail(ps), 0,
                 SetDefaultExtend(d, h[Head(ps).leaf].block, Range(0, b)))

\* the loop of Parameters.blocks: a is the running offset, d the dict
RECURSIVE BlocksLoop(_, _, _, _)
BlocksLoop(h, ps, a, d) ==
    IF ps = <<>> THEN d
    ELSE LET b == a + Len(h[Head(ps).leaf].value)
         IN  BlocksLoop(h, Tail(ps), b,
                 SetDefaultExtend(d, h[Head(ps).leaf].block, Range(a, b)))

\* Parameters.blocks: the dict's values
Parameters_blocks(h, c) ==
    LET d == BlocksLoop(h, c.params, 0, <<>>)
    IN  [j \in 1..Len(d) |-> d[j].idx]

\* obj.params.block = value
SetBlock(o, value, isscalar) ==
    LET r == Parameters_block_setter(heap, objs[o], value, isscalar)
    IN  /\ heap' = r.heap
        /\ last' = Event("block", o, objs[o], 0, None, r.err, <<>>)
        /\ UNCHANGED <<objs, origin, building, nops>>

\* one owner under construction declares leaves of every size and has its
\* block assignment set
NextBlocks ==
    \/ New
    \/ \E name \in BlockNames, n \in 1..MaxSize :
          Parameterized_register(building, name, Zeros(n), REAL)
    \/ \E o \in Owners : \E t \in BlockTags : SetBlock(o, t, TRUE)
    \/ \E o \in Owners : \E v \in BlockLists : SetBlock(o, v, FALSE)

SpecBlocks == Init /\ [][NextBlocks]_vars

(* ------------------------------ properties ---------------------------- *)
IsUpdate(e) == e[1] = "update"
Updates(log) == {i \in 1..Len(log) : IsUpdate(log[i])}
InBounds(p) ==
    \A i \in 1..Len(p.value) : p.bounds[1] <= p.value[i] /\ p.value[i] <= p.bounds[2]

\* C1: in every reachable state every component of every Parameter's value
\* lies within the Parameter's effective bounds, whatever sequence of
\* construction, set_value, set_prior, copy and embed calls led there.
C1_ValueInBounds == \A id \in 1..Len(heap) : InBounds(heap[id])

\* a set_prior narrowed the bounds of a leaf whose value now sits on the new
\* upper bound, after an earlier mutation
C1_Witness ==
    /\ last.op = "set_prior" /\ last.err = "ok" /\ nops = MaxOps
    /\ Len(last.c.params) = 1
    /\ LET p == heap[last.c.params[1].leaf]
       IN  /\ p.prior # None
           /\ p.bounds # BOUNDS(p.domain)
           /\ \E i \in 1..Len(p.value) : p.value[i] = p.bounds[2]

\* C2: a successful Parameters.set_value writes every leaf of the container,
\* in flattening order, and then calls the owner's _update exactly once, as
\* the last event; a failed set_value calls _update zero times.
C2_HookOnceAfterAllLeaves ==
    last.op = "set_value" =>
        IF last.err = "ok"
        THEN /\ last.c.obj = last.obj
             /\ last.log = [i \in 1..Len(last.c.params) |->
                               <<"write", last.c.params[i].leaf>>]
                           \o <<_update(last.obj)>>
        ELSE Updates(last.log) = {}

\* a successful set_value on a container of two leaves
C2_Witness ==
    /\ last.op = "set_value" /\ last.err = "ok"
    /\ Len(last.c.params) >= 2

\* C3: a Parameters.set_value whose theta has a number of elements other than
\* the container's size fails with the shape error, changes no leaf and
\* calls no hook.
C3_ShapeMismatch ==
    [][(last'.op = "set_value" /\ last'.n # Parameters_size(heap, last'.c))
          => (last'.err = "shape" /\ heap' = heap /\ last'.log = <<>>)]_vars

\* a set_value with a theta of the wrong length on a non-empty container
C3_Witness ==
    /\ last.op = "set_value" /\ last.err = "shape"
    /\ Len(last.c.params) >= 1
    /\ last.n >= 1

\* C4: a Parameters.set_value on a container of two or more leaves that
\* fails with the domain error leaves every leaf unchanged.
C4_NoPartialMutation ==
    [][(last'.op = "set_value" /\ last'.err = "domain" /\ Len(last'.c.params) >= 2)
          => heap' = heap]_vars

LeavesIn(h, os, o) == [i \in 1..Len(os[o].params) |-> h[os[o].params[i].leaf]]
OwnLeaves(o) == LeavesIn(heap, objs, o)
IsMutation(e) == e.op \in {"set_value", "set_prior"}

\* C5: a set_value or set_prior on the container of a copy leaves value,
\* bounds and prior of every leaf of the object it was copied from as they
\* were and calls the copy's hook only; a copy shares no Parameter with its
\* original and its container's back-reference is the copy.
C5_CopyIndependent ==
    [][/\ \A t \in 1..Len(objs') :
            origin'[t].src # 0 =>
               /\ objs'[t].obj = t
               /\ LeavesOf(objs'[t]) \cap LeavesOf(objs'[origin'[t].src]) = {}
       /\ (IsMutation(last') /\ origin[last'.obj].src # 0) =>
            /\ LeavesIn(heap', objs', origin[last'.obj].src) = OwnLeaves(origin[last'.obj].src)
            /\ \A i \in Updates(last'.log) : last'.log[i] = _update(last'.obj)]_vars

\* a successful set_value on a copy, whose values now differ from those of
\* the object it was copied from
C5_Witness ==
    /\ last.op = "set_value" /\ last.err = "ok"
    /\ origin[last.obj].src # 0
    /\ origin[last.obj].host = 0
    /\ Len(objs[last.obj].params) >= 2
    /\ OwnLeaves(last.obj) # OwnLeaves(origin[last.obj].src)

EntryNamed(c, name) == c.params[Lookup(c, name)]

Intersection(d, pr) == <<Max(d[1], pr[1]), Min(d[2], pr[2])>>

\* C7: a successful set_prior through the view select('x') of a container
\* with siblings acts on the container's own leaf x: x's prior and bounds are
\* replaced, x's out-of-range components move to the nearest bound and its
\* in-range components stay; every sibling leaf and the container's names
\* and order are unchanged.
C7_SelectSetPriorFrame ==
    [][(/\ last'.op = "set_prior" /\ last'.err = "ok"
        /\ Len(last'.c.params) = 1
        /\ Len(objs[last'.obj].params) >= 2) =>
          LET e == last'.c.params[1]
              x == e.leaf
              p == heap[x]
              q == heap'[x]
          IN  /\ e.name \in KeysOf(objs[last'.obj])
              /\ EntryNamed(objs[last'.obj], e.name).leaf = x
              /\ q.prior = last'.prior
              /\ q.bounds = IF last'.prior = None THEN BOUNDS(p.domain)
                            ELSE Intersection(BOUNDS(p.domain), last'.prior)
              /\ Len(q.value) = Len(p.value)
              /\ \A i \in 1..Len(p.value) :
                    q.value[i] = IF p.value[i] < q.bounds[1] THEN q.bounds[1]
                                 ELSE IF p.value[i] > q.bounds[2] THEN q.bounds[2]
                                 ELSE p.value[i]
              /\ q.domain = p.domain /\ q.block = p.block
              /\ Len(heap') = Len(heap)
              /\ \A id \in 1..Len(heap) : id # x => heap'[id] = heap[id]
              /\ objs' = objs]_vars

\* the first mutation is a set_prior through a view of a two-component leaf
\* with a sibling: one component was out of the new range, the other in it
C7_Witness ==
    /\ last.op = "set_prior" /\ last.err = "ok" /\ nops = 1
    /\ Len(last.c.params) = 1
    /\ Len(objs[last.obj].params) >= 2
    /\ last.prior # None
    /\ Len(heap[last.c.params[1].leaf].value) = 2
    /\ heap[last.c.params[1].leaf].bounds # BOUNDS(heap[last.c.params[1].leaf].domain)

Overlap(d, pr) == Max(d[1], pr[1]) <= Min(d[2], pr[2])

\* C8: a set_prior with a prior fails with the domain-mismatch error exactly
\* when the prior's support box and the domain's box do not overlap; when
\* they overlap it succeeds and sets bounds to their intersection; on failure
\* the Parameter is unchanged.
C8_MismatchIffDisjoint ==
    [][(/\ last'.op = "set_prior" /\ last'.prior # None
        /\ Len(last'.c.params) = 1) =>
          LET x == last'.c.params[1].leaf
              d == BOUNDS(heap[x].domain)
          IN  /\ (last'.err = "mismatch") <=> ~Overlap(d, last'.prior)
              /\ Overlap(d, last'.prior) =>
                    /\ last'.err = "ok"
                    /\ heap'[x].bounds = Intersection(d, last'.prior)
              /\ last'.err # "ok" => heap'[x] = heap[x]]_vars

\* C9: a Parameters.set_prior on a container that does not have exactly one
\* leaf fails with the ambiguous-target error, changes no leaf and calls no
\* hook; with exactly one leaf it delegates to the leaf, then calls the
\* owner's hook once.
C9_ExactlyOneLeaf ==
    [][last'.op = "set_prior" =>
          IF Len(last'.c.params) = 1
          THEN last'.err = "ok" =>
                  last'.log = <<<<"write", last'.c.params[1].leaf>>, _update(last'.obj)>>
          ELSE /\ last'.err = "ambiguous"
               /\ heap' = heap
               /\ last'.log = <<>>]_vars

\* C10: a register call that fails with the duplicate-name error leaves the
\* container as it was: same names, same order, same leaves.
C10_FailedRegisterNoChange ==
    [][(last'.op \in {"register", "register_obj"} /\ last'.err = "duplicate-name")
          => objs'[last'.obj] = objs[last'.obj]]_vars

Sizes(h, c) == [i \in 1..Len(c.params) |-> Len(h[c.params[i].leaf].value)]

\* the groups of a container by tag, in first-seen order
Groups(h, c) == BlocksLoop(h, c.params, 0, <<>>)

\* the case of C11: leaves of sizes 2, 1, 3 in that order, tagged 0, 1, 0
C11_Case(o) ==
    /\ Sizes(heap, objs[o]) = <<2, 1, 3>>
    /\ Parameters_block(heap, objs[o]) = <<0, 1, 0>>

\* C11 as stated: for leaves of sizes 2, 1, 3 tagged 0, 1, 0, blocks groups the
\* flattened indices as {0: [0, 1, 5, 6, 7], 1: [2]}.
C11_BlocksAsStated ==
    \A o \in Owners : C11_Case(o) =>
        Groups(heap, objs[o]) = << [tag |-> 0, idx |-> <<0, 1, 5, 6, 7>>],
                                   [tag |-> 1, idx |-> <<2>>] >>

\* C11 amended: for leaves of sizes 2, 1, 3 tagged 0, 1, 0, blocks groups the
\* flattened indices 0..5 by tag in first-seen order as {0: [0, 1, 3, 4, 5],
\* 1: [2]} and returns the two index lists in that order.
C11_BlocksGroupByTag ==
    \A o \in Owners : C11_Case(o) =>
        /\ Groups(heap, objs[o]) = << [tag |-> 0, idx |-> <<0, 1, 3, 4, 5>>],
                                      [tag |-> 1, idx |-> <<2>>] >>
        /\ Parameters_blocks(heap, objs[o]) = << <<0, 1, 3, 4, 5>>, <<2>> >>

C11_Witness ==
    \E o \in Owners :
        /\ C11_Case(o)
        /\ last.op = "block" /\ last.obj = o /\ last.err = "ok"

\* C12: whenever a set_value or set_prior call on any container changes the
\* flattened vector of an owner, that owner's hook is called in the same
\* operation; this covers the parent of an embedded copy when the call goes
\* through the copy's container or a select view, and the embedded copy when
\* the call goes through the parent's container.  Stated for the calls that
\* return normally (a call that raises after writing a leaf calls no hook).
C12_HookOnEveryVectorChange ==
    [][(IsMutation(last') /\ last'.err = "ok") =>
          \A o \in Owners :
              Parameters_get_value(heap', objs[o]) # Parameters_get_value(heap, objs[o])
                  => \E i \in 1..Len(last'.log) : last'.log[i] = _update(o)]_vars

\* C13: declaring a parameter whose initial value has a component outside the
\* domain's box does not fail: the value is clipped into the box and the
\* parameter is registered; a value already inside the box is registered
\* unchanged (clip leaves it as it is).
C13_InitClipsAndRegisters ==
    [][\A d \in Decls :
          Parameterized_register(building, d.name, d.value, d.domain) =>
              /\ last'.err # "domain"
              /\ last'.err = "ok" =>
                    /\ Len(heap') = Len(heap) + 1
                    /\ heap'[Len(heap')].value =
                          clip(d.value, BOUNDS(d.domain)[1], BOUNDS(d.domain)[2])
                    /\ d.name \in KeysOf(objs'[building])]_vars

====
